---- MODULE Spec2Model ----
(***************************************************************************)
(* A model of the assistant bot of task.py: the field types Phone and      *)
(* Birthday, Record, AddressBook, the command handlers behind input_error  *)
(* and the command loop of main with load_data / save_data.                *)
(*                                                                         *)
(* A Python str is a sequence of one-character strings.  A formatted       *)
(* string (an f-string or a literal) is Str(text, args): text is the       *)
(* literal with {} in place of each interpolated value, args the           *)
(* interpolated values in order.  None is the empty sequence and an        *)
(* Optional value a sequence of at most one element.                       *)
(***************************************************************************)
EXTENDS Integers, Sequences, FiniteSets

VARIABLES
    book,        \* main: the AddressBook, a sequence of Records in insertion order
    disk,        \* addressbook.pkl: NoFile or the pickled book
    pc,          \* main: "start", "loop", "done" (returned) or "crashed" (uncaught exception)
    user_input,  \* main: the line read last
    out,         \* what the last iteration of the loop printed
    raw,         \* the string handed to Phone(...)
    phone,       \* the outcome of Phone(raw)
    today,       \* datetime.today().date()
    record,      \* the Record whose birthday is queried
    upcoming     \* the outcome of record.get_upcoming_birthdays()

vars == <<book, disk, pc, user_input, out, raw, phone, today, record, upcoming>>

(***************************************************************************)
(* Bounds                                                                  *)
(***************************************************************************)
MaxRawLen == 11     \* longest string typed into Phone(...)
MaxPhones == 2      \* most phones kept in one record
FirstYear == 2023   \* first year of today
NumYears == 2       \* number of years today ranges over
BirthYear == 2000   \* year of birth of the birthdays queried

(***************************************************************************)
(* Characters, strings, outcomes                                           *)
(***************************************************************************)
None == <<>>

DigitChars == <<"0", "1", "2", "3", "4", "5", "6", "7", "8", "9">>

isdigit(char) == \E i \in 1..10 : DigitChars[i] = char

DigitValue(char) == (CHOOSE i \in 1..10 : DigitChars[i] = char) - 1

PhonePunctuation == {"+", "-", "(", ")"}

isspace(char) == char \in {" ", "\t"}

Str(text, args) == [text |-> text, args |-> args]

\* A call returns a value (exc = "") or raises exc with message val.
Return(val) == [exc |-> "", val |-> val]

Raise(exc, message) == [exc |-> exc, val |-> message]

(***************************************************************************)
(* datetime.date                                                           *)
(***************************************************************************)
MINYEAR == 1

MAXYEAR == 9999

is_leap(year) == year % 4 = 0 /\ (year % 100 # 0 \/ year % 400 = 0)

DAYS_IN_MONTH == <<31, 28, 31, 30, 31, 30, 31, 31, 30, 31, 30, 31>>

DAYS_BEFORE_MONTH == <<0, 31, 59, 90, 120, 151, 181, 212, 243, 273, 304, 334>>

days_in_month(year, month) ==
    IF month = 2 /\ is_leap(year) THEN 29 ELSE DAYS_IN_MONTH[month]

days_before_year(year) ==
    LET y == year - 1 IN y * 365 + (y \div 4) - (y \div 100) + (y \div 400)

days_before_month(year, month) ==
    DAYS_BEFORE_MONTH[month] + (IF month > 2 /\ is_leap(year) THEN 1 ELSE 0)

Date(year, month, day) == [year |-> year, month |-> month, day |-> day]

\* date(year, month, day): ValueError unless the fields name a calendar day.
date(year, month, day) ==
    IF year < MINYEAR \/ year > MAXYEAR
    THEN Raise("ValueError", Str("year {} is out of range", <<>>))
    ELSE IF month < 1 \/ month > 12
    THEN Raise("ValueError", Str("month must be in 1..12", <<>>))
    ELSE IF day < 1 \/ day > days_in_month(year, month)
    THEN Raise("ValueError", Str("day is out of range for month", <<>>))
    ELSE Return(Date(year, month, day))

toordinal(d) == days_before_year(d.year) + days_before_month(d.year, d.month) + d.day

\* Monday is 0, Sunday is 6.
weekday(d) == (toordinal(d) + 6) % 7

replace_year(d, year) == date(year, d.month, d.day)

date_lt(a, b) == toordinal(a) < toordinal(b)

\* d + timedelta(days=1)
plus_one_day(d) ==
    IF d.day < days_in_month(d.year, d.month) THEN Return(Date(d.year, d.month, d.day + 1))
    ELSE IF d.month < 12 THEN Return(Date(d.year, d.month + 1, 1))
    ELSE IF d.year < MAXYEAR THEN Return(Date(d.year + 1, 1, 1))
    ELSE Raise("OverflowError", Str("date value out of range", <<>>))

\* (a - b).days
days_between(a, b) == toordinal(a) - toordinal(b)

TwoDigits(n) == <<DigitChars[((n \div 10) % 10) + 1], DigitChars[(n % 10) + 1]>>

\* d.strftime("%d.%m.%Y"), for the four-digit years
strftime(d) ==
    TwoDigits(d.day) \o <<".">> \o TwoDigits(d.month) \o <<".">>
        \o TwoDigits(d.year \div 100) \o TwoDigits(d.year % 100)

RECURSIVE int(_)
int(s) == IF s = <<>> THEN 0 ELSE 10 * int(SubSeq(s, 1, Len(s) - 1)) + DigitValue(s[Len(s)])

AllDigits(s) == \A i \in 1..Len(s) : isdigit(s[i])

\* The fields of s between the dots.
RECURSIVE SplitDots(_)
SplitDots(s) ==
    IF \A i \in 1..Len(s) : s[i] # "."
    THEN <<s>>
    ELSE LET i == CHOOSE k \in 1..Len(s) : s[k] = "." /\ \A j \in 1..(k - 1) : s[j] # "."
         IN  <<SubSeq(s, 1, i - 1)>> \o SplitDots(SubSeq(s, i + 1, Len(s)))

\* %d: 3[0-1] | [1-2]\d | 0[1-9] | [1-9] | " "[1-9]
MatchesDay(f) ==
    \/ Len(f) = 2 /\ AllDigits(f) /\ int(f) \in 1..31
    \/ Len(f) = 1 /\ AllDigits(f) /\ int(f) \in 1..9
    \/ Len(f) = 2 /\ f[1] = " " /\ isdigit(f[2]) /\ DigitValue(f[2]) \in 1..9

\* %m: 1[0-2] | 0[1-9] | [1-9]
MatchesMonth(f) ==
    \/ Len(f) = 2 /\ AllDigits(f) /\ int(f) \in 1..12
    \/ Len(f) = 1 /\ AllDigits(f) /\ int(f) \in 1..9

\* %Y: \d\d\d\d
MatchesYear(f) == Len(f) = 4 /\ AllDigits(f)

\* datetime.strptime(value, "%d.%m.%Y").date()
strptime(value) ==
    LET f == SplitDots(value) IN
    IF Len(f) # 3 \/ ~MatchesDay(f[1]) \/ ~MatchesMonth(f[2]) \/ ~MatchesYear(f[3])
    THEN Raise("ValueError", Str("time data {} does not match format '%d.%m.%Y'", <<value>>))
    ELSE date(int(f[3]), int(f[2]), int(IF f[1][1] = " " THEN <<f[1][2]>> ELSE f[1]))

(***************************************************************************)
(* Field, Name, Phone, Birthday                                            *)
(***************************************************************************)
Field(value) == [value |-> value]

Name(value) == Field(value)

\* Variant of Phone: nothing is dropped before the length check.
Phone_unfiltered(value) ==
    IF Len(value) # 10
    THEN Raise("ValueError", Str("Phone number must contain 10 digits.", <<>>))
    ELSE Return(Field(value))

\* Phone.__init__: keeps the digits and + - ( ), drops every other character,
\* and wants 10 characters left.
Phone(value) ==
    LET keep(char) == isdigit(char) \/ char \in PhonePunctuation
        sanitized_value == SelectSeq(value, keep)
    IN  IF Len(sanitized_value) # 10
        THEN Raise("ValueError", Str("Phone number must contain 10 digits.", <<>>))
        ELSE Return(Field(sanitized_value))

\* Birthday.__init__
Birthday(value) ==
    LET parsed == strptime(value) IN
    IF parsed.exc = "ValueError"
    THEN Raise("ValueError", Str("Invalid date format. Use DD.MM.YYYY", <<>>))
    ELSE Return([value |-> value, date |-> parsed.val])

(***************************************************************************)
(* Record.  A method's outcome carries self as the call left it.           *)
(***************************************************************************)
Record(name) == [name |-> Name(name), phones |-> <<>>, birthday |-> None]

Returned(self, val) == [exc |-> "", val |-> val, self |-> self]

Raised(self, exc, message) == [exc |-> exc, val |-> message, self |-> self]

\* The position of the first phone of self with this value, 0 if there is none.
FirstIndex(self, value) ==
    IF \E i \in 1..Len(self.phones) : self.phones[i].value = value
    THEN CHOOSE i \in 1..Len(self.phones) :
            /\ self.phones[i].value = value
            /\ \A j \in 1..(i - 1) : self.phones[j].value # value
    ELSE 0

add_phone(self, value) ==
    LET p == Phone(value) IN
    IF p.exc = "ValueError"
    THEN Raised(self, "ValueError", Str("Error adding phone: " \o p.val.text, p.val.args))
    ELSE Returned([self EXCEPT !.phones = Append(@, p.val)], None)

\* Variant of edit_phone: every phone equal to old_phone is edited.
edit_phone_every(self, old_phone, new_phone) ==
    LET i == FirstIndex(self, old_phone)
        p == Phone(new_phone)
    IN  IF i = 0
        THEN Raised(self, "ValueError", Str("Phone number not found in record.", <<>>))
        ELSE IF p.exc = "ValueError"
        THEN Raised(self, "ValueError", Str("Error: " \o p.val.text, p.val.args))
        ELSE Returned([self EXCEPT !.phones =
                        [k \in 1..Len(@) |->
                            IF @[k].value = old_phone THEN [@[k] EXCEPT !.value = p.val.value]
                            ELSE @[k]]], None)

edit_phone(self, old_phone, new_phone) ==
    LET i == FirstIndex(self, old_phone)
        p == Phone(new_phone)
    IN  IF i = 0
        THEN Raised(self, "ValueError", Str("Phone number not found in record.", <<>>))
        ELSE IF p.exc = "ValueError"
        THEN Raised(self, "ValueError", Str("Error: " \o p.val.text, p.val.args))
        ELSE Returned([self EXCEPT !.phones[i].value = p.val.value], None)

Record_add_birthday(self, value) ==
    LET b == Birthday(value) IN
    IF b.exc = "ValueError"
    THEN Raised(self, "ValueError", Str("Error adding birthday: " \o b.val.text, b.val.args))
    ELSE Returned([self EXCEPT !.birthday = <<b.val>>], None)

\* while next_birthday.weekday() >= 5: next_birthday += timedelta(days=1)
RECURSIVE RollForward(_)
RollForward(next_birthday) ==
    IF weekday(next_birthday) >= 5
    THEN LET next == plus_one_day(next_birthday) IN
         IF next.exc # "" THEN next ELSE RollForward(next.val)
    ELSE Return(next_birthday)

\* Variant of InWindow: the seventh day is left out.
InWindow_six_days(days_until_birthday) == 0 <= days_until_birthday /\ days_until_birthday < 7

\* if 0 <= days_until_birthday <= 7
InWindow(days_until_birthday) == 0 <= days_until_birthday /\ days_until_birthday <= 7

\* Record.get_upcoming_birthdays, with today as datetime.today().date() gave it
get_upcoming_birthdays(self, now) ==
    IF self.birthday = None THEN Return(<<>>)
    ELSE
    LET birthday == self.birthday[1].date
        this_year == replace_year(birthday, now.year)
    IN  IF this_year.exc # "" THEN this_year
        ELSE
        LET next_birthday ==
                IF date_lt(this_year.val, now)
                THEN replace_year(this_year.val, now.year + 1)
                ELSE this_year
        IN  IF next_birthday.exc # "" THEN next_birthday
            ELSE
            LET rolled == RollForward(next_birthday.val) IN
            IF rolled.exc # "" THEN rolled
            ELSE IF InWindow(days_between(rolled.val, now))
            THEN Return(<<[name |-> self.name.value,
                           congratulation_date |-> strftime(rolled.val)]>>)
            ELSE Return(<<>>)

\* Record.__str__
RECURSIVE JoinCommaSpace(_)
JoinCommaSpace(values) ==
    IF values = <<>> THEN <<>>
    ELSE IF Len(values) = 1 THEN values[1]
    ELSE values[1] \o <<",", " ">> \o JoinCommaSpace(Tail(values))

PhoneValues(self) == [i \in 1..Len(self.phones) |-> self.phones[i].value]

Record_str(self) ==
    Str("Contact name: {}, phones: {}, birthday: {}",
        << self.name.value,
           JoinCommaSpace(PhoneValues(self)),
           IF self.birthday # None THEN self.birthday[1].value ELSE <<"N", "o", "n", "e">> >>)

(***************************************************************************)
(* AddressBook: data is the dict's items in insertion order.               *)
(***************************************************************************)
AddressBook == <<>>

\* The position of the item with this key, 0 if there is none.
KeyIndex(data, key) ==
    IF \E i \in 1..Len(data) : data[i].key = key
    THEN CHOOSE i \in 1..Len(data) : data[i].key = key
    ELSE 0

\* self.data[key] = value
SetItem(data, key, value) ==
    LET i == KeyIndex(data, key) IN
    IF i = 0 THEN Append(data, [key |-> key, value |-> value])
    ELSE [data EXCEPT ![i].value = value]

add_record(data, rec) == SetItem(data, rec.name.value, rec)

\* self.data.get(name)
find_record(data, name) ==
    LET i == KeyIndex(data, name) IN
    IF i = 0 THEN None ELSE <<data[i].value>>

(***************************************************************************)
(* Command handlers.  An outcome carries the book as the call left it: the *)
(* records are mutated in place, also by a call that raises afterwards.    *)
(***************************************************************************)
Returns(data, val) == [exc |-> "", val |-> val, book |-> data]

Raises(data, exc, message) == [exc |-> exc, val |-> message, book |-> data]

\* Variant of input_error: IndexError is not caught.
input_error_without_IndexError(outcome) ==
    IF outcome.exc = "KeyError" THEN Returns(outcome.book, Str("KeyError", <<>>))
    ELSE IF outcome.exc = "ValueError"
    THEN Returns(outcome.book, Str("ValueError: " \o outcome.val.text, outcome.val.args))
    ELSE outcome

\* The wrapper of input_error, applied to the outcome of func(*args, **kwargs).
input_error(outcome) ==
    IF outcome.exc = "KeyError" THEN Returns(outcome.book, Str("KeyError", <<>>))
    ELSE IF outcome.exc = "ValueError"
    THEN Returns(outcome.book, Str("ValueError: " \o outcome.val.text, outcome.val.args))
    ELSE IF outcome.exc = "IndexError" THEN Returns(outcome.book, Str("IndexError", <<>>))
    ELSE outcome

TooManyValues == Str("too many values to unpack (expected 2)", <<>>)

ListIndexOutOfRange == Str("list index out of range", <<>>)

\* Variant of add_birthday: a birthday that is set is overwritten.
add_birthday_body_overwriting(args, data) ==
    IF Len(args) < 2
    THEN Returns(data, Str("Not enough arguments. Please provide both name and birthday (DD.MM.YYYY).", <<>>))
    ELSE IF Len(args) # 2 THEN Raises(data, "ValueError", TooManyValues)
    ELSE
    LET name == args[1]
        birthday == args[2]
        rec == find_record(data, name)
    IN  IF rec # None
        THEN LET added == Record_add_birthday(rec[1], birthday) IN
             IF added.exc = "ValueError"
             THEN Returns(data, Str("Error adding birthday: " \o added.val.text, added.val.args))
             ELSE Returns(SetItem(data, name, added.self),
                          Str("Birthday added successfully for {}.", <<name>>))
        ELSE Returns(data, Str("Record not found.", <<>>))

add_birthday_body(args, data) ==
    IF Len(args) < 2
    THEN Returns(data, Str("Not enough arguments. Please provide both name and birthday (DD.MM.YYYY).", <<>>))
    ELSE IF Len(args) # 2 THEN Raises(data, "ValueError", TooManyValues)
    ELSE
    LET name == args[1]
        birthday == args[2]
        rec == find_record(data, name)
    IN  IF rec # None
        THEN IF rec[1].birthday # None
             THEN Returns(data, Str("Birthday already exists for {}.", <<name>>))
             ELSE LET added == Record_add_birthday(rec[1], birthday) IN
                  IF added.exc = "ValueError"
                  THEN Returns(data, Str("Error adding birthday: " \o added.val.text, added.val.args))
                  ELSE Returns(SetItem(data, name, added.self),
                               Str("Birthday added successfully for {}.", <<name>>))
        ELSE Returns(data, Str("Record not found.", <<>>))

add_birthday(args, data) == input_error(add_birthday_body(args, data))

show_birthday_body(args, data) ==
    IF Len(args) < 1 THEN Raises(data, "IndexError", ListIndexOutOfRange)
    ELSE
    LET name == args[1]
        rec == find_record(data, name)
    IN  IF rec # None /\ rec[1].birthday # None
        THEN Returns(data, Str("{}'s birthday: {}", <<name, rec[1].birthday[1].value>>))
        ELSE IF rec # None
        THEN Returns(data, Str("{} has no birthday information.", <<name>>))
        ELSE Returns(data, Str("Record not found.", <<>>))

show_birthday(args, data) == input_error(show_birthday_body(args, data))

\* for record in book.data.values(): upcoming_birthdays.extend(...), from item i on
RECURSIVE CollectUpcoming(_, _, _)
CollectUpcoming(data, i, now) ==
    IF i > Len(data) THEN Return(<<>>)
    ELSE IF data[i].value.birthday = None THEN CollectUpcoming(data, i + 1, now)
    ELSE LET mine == get_upcoming_birthdays(data[i].value, now) IN
         IF mine.exc # "" THEN mine
         ELSE LET rest == CollectUpcoming(data, i + 1, now) IN
              IF rest.exc # "" THEN rest ELSE Return(mine.val \o rest.val)

RECURSIVE JoinLines(_)
JoinLines(texts) ==
    IF texts = <<>> THEN ""
    ELSE IF Len(texts) = 1 THEN texts[1]
    ELSE texts[1] \o "\n" \o JoinLines(Tail(texts))

RECURSIVE Flatten(_)
Flatten(seqs) == IF seqs = <<>> THEN <<>> ELSE seqs[1] \o Flatten(Tail(seqs))

birthdays_body(args, data, now) ==
    LET upcoming_birthdays == CollectUpcoming(data, 1, now) IN
    IF upcoming_birthdays.exc # ""
    THEN Raises(data, upcoming_birthdays.exc, upcoming_birthdays.val)
    ELSE
    LET users == upcoming_birthdays.val IN
    IF users # <<>>
    THEN Returns(data,
            Str("Upcoming birthdays:\n" \o JoinLines([i \in 1..Len(users) |-> "{} - {}"]),
                Flatten([i \in 1..Len(users) |->
                            <<users[i].name, users[i].congratulation_date>>])))
    ELSE Returns(data, Str("No upcoming birthdays in the next 7 days.", <<>>))

birthdays(args, data, now) == input_error(birthdays_body(args, data, now))

add_contact_body(args, data) ==
    IF Len(args) < 2
    THEN Returns(data, Str("Not enough arguments. Please provide both name and phone number.", <<>>))
    ELSE
    LET name == args[1]
        phone_arg == args[2]
        found == find_record(data, name)
        rec == IF found = None THEN Record(name) ELSE found[1]
        with_record == IF found = None THEN add_record(data, rec) ELSE data
        message == IF found = None THEN Str("Contact added.", <<>>) ELSE Str("Contact updated.", <<>>)
    IN  IF phone_arg # <<>>
        THEN LET added == add_phone(rec, phone_arg) IN
             IF added.exc # ""
             THEN Raises(with_record, added.exc, added.val)
             ELSE Returns(SetItem(with_record, name, added.self), message)
        ELSE Returns(with_record, message)

add_contact(args, data) == input_error(add_contact_body(args, data))

change_contact_body(args, data) ==
    IF Len(args) < 2
    THEN Returns(data, Str("Not enough arguments. Please provide both name and new phone number.", <<>>))
    ELSE IF Len(args) # 2 THEN Raises(data, "ValueError", TooManyValues)
    ELSE
    LET name == args[1]
        new_phone == args[2]
        rec == find_record(data, name)
    IN  IF rec # None
        THEN IF rec[1].phones = <<>>
             THEN Raises(data, "IndexError", ListIndexOutOfRange)
             ELSE LET edited == edit_phone(rec[1], rec[1].phones[1].value, new_phone) IN
                  IF edited.exc = "ValueError"
                  THEN Returns(data, Str("Error: " \o edited.val.text, edited.val.args))
                  ELSE Returns(SetItem(data, name, edited.self),
                               Str("Phone number updated for {}.", <<name>>))
        ELSE Returns(data, Str("Record not found.", <<>>))

change_contact(args, data) == input_error(change_contact_body(args, data))

show_phones_body(args, data) ==
    IF Len(args) < 1
    THEN Returns(data, Str("Not enough arguments. Please provide a name.", <<>>))
    ELSE
    LET name == args[1]
        rec == find_record(data, name)
    IN  IF rec # None
        THEN Returns(data, Str("Phones for {}: {}", <<name, JoinCommaSpace(PhoneValues(rec[1]))>>))
        ELSE Returns(data, Str("Record for {} not found.", <<name>>))

show_phones(args, data) == input_error(show_phones_body(args, data))

show_all_body(data) ==
    IF data # <<>>
    THEN Returns(data,
            Str(JoinLines([i \in 1..Len(data) |-> "{}: " \o Record_str(data[i].value).text]),
                Flatten([i \in 1..Len(data) |->
                            <<data[i].key>> \o Record_str(data[i].value).args])))
    ELSE Returns(data, Str("Address book is empty.", <<>>))

show_all(data) == input_error(show_all_body(data))

(***************************************************************************)
(* save_data, load_data, parse_input                                       *)
(***************************************************************************)
pickle_dump(obj) == [format |-> "pickle", obj |-> obj]

pickle_load(blob) == blob.obj

\* The file after save_data(book).
save_data(data) == <<pickle_dump(data)>>

\* load_data(): the saved book, or a new one when there is no file.
load_data(file) == IF file = None THEN AddressBook ELSE pickle_load(file[1])

\* str.split(): the maximal runs of characters that are not whitespace.
RECURSIVE split(_)
split(s) ==
    IF s = <<>> THEN <<>>
    ELSE IF isspace(s[1]) THEN split(Tail(s))
    ELSE LET n == IF \E k \in 1..Len(s) : isspace(s[k])
                  THEN (CHOOSE k \in 1..Len(s) :
                            isspace(s[k]) /\ \A j \in 1..(k - 1) : ~isspace(s[j])) - 1
                  ELSE Len(s)
         IN  <<SubSeq(s, 1, n)>> \o split(SubSeq(s, n + 1, Len(s)))

parse_input(line) == IF line # <<>> THEN split(line) ELSE <<>>

(***************************************************************************)
(* Names used as inputs                                                    *)
(***************************************************************************)
Alice == <<"A", "l", "i", "c", "e">>

Bob == <<"B", "o", "b">>

Extra == <<"x">>

\* Phone arguments: ten digits; a plus and nine digits; ten digits and a letter;
\* ten digits and three dashes.
PhoneDigits == <<"0", "5", "0", "1", "2", "3", "4", "5", "6", "7">>

PhonePlus == <<"+", "3", "8", "0", "5", "0", "1", "2", "3", "4">>

PhoneLetter == <<"0", "5", "0", "1", "2", "3", "4", "5", "6", "7", "x">>

PhoneDashes == <<"0", "5", "0", "-", "1", "2", "3", "-", "4", "5", "-", "6", "7">>

PhoneArgs == {PhoneDigits, PhonePlus, PhoneLetter, PhoneDashes}

\* Date arguments: a Saturday of January; a 29 February; a 31 February.
DateSaturday == <<"0", "6", ".", "0", "1", ".", "1", "9", "9", "0">>

DateLeap == <<"2", "9", ".", "0", "2", ".", "2", "0", "0", "0">>

DateBad == <<"3", "1", ".", "0", "2", ".", "2", "0", "0", "0">>

DateArgs == {DateSaturday, DateLeap, DateBad}

\* The command words of main.
CLOSE == <<"c", "l", "o", "s", "e">>

EXIT == <<"e", "x", "i", "t">>

HELLO == <<"h", "e", "l", "l", "o">>

ADD == <<"a", "d", "d">>

CHANGE == <<"c", "h", "a", "n", "g", "e">>

PHONE == <<"p", "h", "o", "n", "e">>

ALL == <<"a", "l", "l">>

ADD_BIRTHDAY == <<"a", "d", "d", "_", "b", "i", "r", "t", "h", "d", "a", "y">>

SHOW_BIRTHDAY == <<"s", "h", "o", "w", "_", "b", "i", "r", "t", "h", "d", "a", "y">>

BIRTHDAYS == <<"b", "i", "r", "t", "h", "d", "a", "y", "s">>

UNKNOWN == <<"d", "e", "l", "e", "t", "e">>

RECURSIVE JoinSpace(_)
JoinSpace(words) ==
    IF words = <<>> THEN <<>>
    ELSE IF Len(words) = 1 THEN words[1]
    ELSE words[1] \o <<" ">> \o JoinSpace(Tail(words))

\* The argument lists typed after a command word: every length from none to
\* one too many; Alice with every phone and date, Bob as the other contact.
NoArgs == {<<>>}

OneTooMany == {<<>>, <<Extra>>}

NameOnly == {<<>>, <<Alice>>, <<Bob>>, <<Alice, Extra>>}

AddArgs ==
    {<<>>, <<Alice>>, <<Bob>>, <<Alice, PhoneDigits, Extra>>}
        \cup { <<Alice, p>> : p \in PhoneArgs }
        \cup {<<Bob, PhoneDigits>>, <<Bob, PhoneDashes>>}

ChangeArgs ==
    {<<>>, <<Alice>>, <<Bob>>, <<Alice, PhoneDigits, Extra>>}
        \cup { <<Alice, p>> : p \in PhoneArgs }
        \cup {<<Bob, PhonePlus>>}

BirthdayArgs ==
    {<<>>, <<Alice>>, <<Bob>>, <<Alice, DateLeap, Extra>>}
        \cup { <<Alice, d>> : d \in DateArgs \cup {PhoneDigits} }
        \cup {<<Bob, DateLeap>>}

Typed(command, arglists) == { JoinSpace(<<command>> \o args) : args \in arglists }

\* The lines typed at the prompt.
Lines ==
    {<<>>, <<" ">>, <<" ">> \o HELLO \o <<" ", " ">>}
        \cup Typed(CLOSE, OneTooMany) \cup Typed(EXIT, NoArgs) \cup Typed(HELLO, NoArgs)
        \cup Typed(ALL, OneTooMany) \cup Typed(BIRTHDAYS, OneTooMany)
        \cup Typed(UNKNOWN, NoArgs)
        \cup Typed(ADD, AddArgs) \cup Typed(CHANGE, ChangeArgs)
        \cup Typed(PHONE, NameOnly) \cup Typed(SHOW_BIRTHDAY, NameOnly)
        \cup Typed(ADD_BIRTHDAY, BirthdayArgs)

\* parse_input(user_input) for each line that can be typed.
Tokens == [line \in Lines |-> parse_input(line)]

\* The days on which the loop runs.
LoopDays == {Date(FirstYear, 2, 27), Date(FirstYear + 1, 1, 1)}

\* A book saved by an earlier run.
SavedBook == add_contact(<<Alice, PhoneDigits>>, AddressBook).book

(***************************************************************************)
(* main                                                                    *)
(***************************************************************************)
Text(text) == <<Str(text, <<>>)>>

Init ==
    /\ book = AddressBook
    /\ disk \in {None, save_data(SavedBook)}
    /\ pc = "start"
    /\ user_input = <<>>
    /\ out = None
    /\ raw = <<>> /\ phone = None
    /\ today = Date(FirstYear, 1, 1)
    /\ record = Record(Alice)
    /\ upcoming = None

Idle == UNCHANGED <<raw, phone, today, record, upcoming>>

WithinBounds(data) == \A i \in 1..Len(data) : Len(data[i].value.phones) <= MaxPhones

\* book = load_data(); print("Welcome to the assistant bot!")
Load ==
    /\ pc = "start"
    /\ book' = load_data(disk)
    /\ out' = Text("Welcome to the assistant bot!")
    /\ pc' = "loop"
    /\ UNCHANGED <<disk, user_input>>
    /\ Idle

\* command, *args = parse_input(user_input) with nothing to unpack: the
\* ValueError is raised in main itself, outside every handler.
Unpack(line) ==
    /\ pc = "loop"
    /\ Tokens[line] = <<>>
    /\ user_input' = line
    /\ pc' = "crashed"
    /\ out' = None
    /\ UNCHANGED <<book, disk>>
    /\ Idle

Reads(line, words) ==
    /\ pc = "loop"
    /\ Tokens[line] # <<>>
    /\ Head(Tokens[line]) \in words
    /\ user_input' = line

\* print(handler(args, book)): an exception the handler lets through ends main.
Dispatch(outcome) ==
    /\ WithinBounds(outcome.book)
    /\ book' = outcome.book
    /\ IF outcome.exc = ""
       THEN out' = <<outcome.val>> /\ pc' = "loop"
       ELSE out' = None /\ pc' = "crashed"
    /\ UNCHANGED disk
    /\ Idle

Close(line) ==
    /\ Reads(line, {CLOSE, EXIT})
    /\ disk' = save_data(book)
    /\ out' = Text("Good bye!")
    /\ pc' = "done"
    /\ UNCHANGED book
    /\ Idle

Hello(line) ==
    /\ Reads(line, {HELLO})
    /\ out' = Text("How can I help you?")
    /\ UNCHANGED <<book, disk, pc>>
    /\ Idle

Add(line) ==
    /\ Reads(line, {ADD})
    /\ Dispatch(add_contact(Tail(Tokens[line]), book))

Change(line) ==
    /\ Reads(line, {CHANGE})
    /\ Dispatch(change_contact(Tail(Tokens[line]), book))

ShowPhones(line) ==
    /\ Reads(line, {PHONE})
    /\ Dispatch(show_phones(Tail(Tokens[line]), book))

ShowAll(line) ==
    /\ Reads(line, {ALL})
    /\ Dispatch(show_all(book))

AddBirthday(line) ==
    /\ Reads(line, {ADD_BIRTHDAY})
    /\ Dispatch(add_birthday(Tail(Tokens[line]), book))

ShowBirthday(line) ==
    /\ Reads(line, {SHOW_BIRTHDAY})
    /\ Dispatch(show_birthday(Tail(Tokens[line]), book))

Birthdays(line) ==
    /\ Reads(line, {BIRTHDAYS})
    /\ \E now \in LoopDays : Dispatch(birthdays(Tail(Tokens[line]), book, now))

Invalid(line) ==
    /\ pc = "loop"
    /\ Tokens[line] # <<>>
    /\ Head(Tokens[line]) \notin
          {CLOSE, EXIT, HELLO, ADD, CHANGE, PHONE, ALL, ADD_BIRTHDAY, SHOW_BIRTHDAY, BIRTHDAYS}
    /\ user_input' = line
    /\ out' = Text("Invalid command.")
    /\ UNCHANGED <<book, disk, pc>>
    /\ Idle

Next ==
    \/ Load
    \/ \E line \in Lines :
        \/ Unpack(line)
        \/ Close(line)
        \/ Hello(line)
        \/ Add(line)
        \/ Change(line)
        \/ ShowPhones(line)
        \/ ShowAll(line)
        \/ AddBirthday(line)
        \/ ShowBirthday(line)
        \/ Birthdays(line)
        \/ Invalid(line)

Spec == Init /\ [][Next]_vars

MainOff ==
    /\ book = <<>>
    /\ disk = None
    /\ pc = "off"
    /\ user_input = <<>>
    /\ out = None

PhoneOff == raw = <<>> /\ phone = None

BirthdayOff ==
    /\ today = Date(FirstYear, 1, 1)
    /\ record = Record(Alice)
    /\ upcoming = None

(***************************************************************************)
(* SpecPhone: a string is typed character by character and handed to Phone *)
(***************************************************************************)
TypedChars == {"7", "+", "a"}

InitPhone == MainOff /\ BirthdayOff /\ raw = <<>> /\ phone = None

Type(char) ==
    /\ Len(raw) < MaxRawLen
    /\ raw' = Append(raw, char)
    /\ phone' = None
    /\ UNCHANGED <<book, disk, pc, user_input, out, today, record, upcoming>>

Construct ==
    /\ phone = None
    /\ phone' = <<Phone(raw)>>
    /\ UNCHANGED <<book, disk, pc, user_input, out, raw, today, record, upcoming>>

NextPhone == (\E char \in TypedChars : Type(char)) \/ Construct

SpecPhone == InitPhone /\ [][NextPhone]_vars

(***************************************************************************)
(* SpecBirthday: a record with or without a birthday is queried on a day   *)
(***************************************************************************)
Todays ==
    { Date(y, m, d) : y \in FirstYear..(FirstYear + NumYears - 1), m \in 1..12, d \in 1..31 }

BirthdayStrings ==
    { strftime(Date(BirthYear, m, d)) :
        m \in 1..12, d \in 1..31 }

QueriedRecords ==
    {Record(Alice)} \cup
    { Record_add_birthday(Record(Alice), s).self :
        s \in { t \in BirthdayStrings : Birthday(t).exc = "" } }

InitBirthday ==
    /\ MainOff /\ PhoneOff
    /\ today \in { t \in Todays : t.day <= days_in_month(t.year, t.month) }
    /\ record \in QueriedRecords
    /\ upcoming = None

Query ==
    /\ upcoming = None
    /\ upcoming' = <<get_upcoming_birthdays(record, today)>>
    /\ UNCHANGED <<book, disk, pc, user_input, out, raw, phone, today, record>>

Midnight ==
    /\ plus_one_day(today).val.year < FirstYear + NumYears
    /\ today' = plus_one_day(today).val
    /\ upcoming' = None
    /\ UNCHANGED <<book, disk, pc, user_input, out, raw, phone, record>>

NextBirthday == Query \/ Midnight

SpecBirthday == InitBirthday /\ [][NextBirthday]_vars

(***************************************************************************)
(* Properties                                                              *)
(***************************************************************************)
HandlerWords == {ADD, CHANGE, PHONE, ALL, ADD_BIRTHDAY, SHOW_BIRTHDAY, BIRTHDAYS}

\* The step is an iteration of the loop of main that read user_input'.
Iteration == pc = "loop" /\ user_input' \in Lines

Command == Head(Tokens[user_input'])

Args == Tail(Tokens[user_input'])

Said(text, args) == <<Str(text, args)>>

Retained(char) == isdigit(char) \/ char \in PhonePunctuation

NumRetained(s) == Cardinality({ i \in 1..Len(s) : Retained(s[i]) })

\* C1: after any handler command, whatever its arguments and whatever the
\* book holds, the loop has printed the handler's result and goes on: no
\* exception of a handler ends main.
C1_HandlersReturn ==
    (pc \in {"loop", "crashed"} /\ Tokens[user_input] # <<>>
        /\ Head(Tokens[user_input]) \in HandlerWords)
    => (pc = "loop" /\ out # None)

\* A change of a contact without phones came back as the text IndexError.
C1_Witness ==
    /\ pc = "loop"
    /\ user_input = JoinSpace(<<CHANGE, Bob, PhonePlus>>)
    /\ find_record(book, Bob) # None
    /\ find_record(book, Bob)[1].phones = <<>>
    /\ out = Said("IndexError", <<>>)

\* C2: an iteration that reads a line without tokens prints "Invalid command.",
\* leaves the book alone and stays in the loop.
C2_EmptyLineIsInvalidCommand ==
    [][(Iteration /\ Tokens[user_input'] = <<>>)
        => (out' = Said("Invalid command.", <<>>) /\ book' = book /\ pc' = "loop")]_vars

\* C3: main has ended only after close or exit, with the file holding the book
\* as the last command left it.
C3_EndsOnlySaved ==
    (pc \in {"done", "crashed"})
    => /\ Tokens[user_input] # <<>>
       /\ Head(Tokens[user_input]) \in {CLOSE, EXIT}
       /\ disk # None
       /\ pickle_load(disk[1]) = book

\* C4: every phone kept in the book is ten digits.
C4_PhonesAreTenDigits ==
    \A i \in 1..Len(book) : \A k \in 1..Len(book[i].value.phones) :
        LET value == book[i].value.phones[k].value IN
        Len(value) = 10 /\ \A j \in 1..Len(value) : isdigit(value[j])

C6_BirthdayNeverOverwritten ==
    [][Iteration =>
        /\ (Tokens[user_input'] # <<>> /\ Command = ADD_BIRTHDAY /\ Len(Args) = 2
                /\ find_record(book, Args[1]) # None
                /\ find_record(book, Args[1])[1].birthday # None)
            => /\ out' = Said("Birthday already exists for {}.", <<Args[1]>>)
               /\ book' = book
               /\ pc' = "loop"
        /\ \A i \in 1..Len(book) : book[i].value.birthday # None =>
            /\ i <= Len(book')
            /\ book'[i].key = book[i].key
            /\ book'[i].value.birthday = book[i].value.birthday
      ]_vars

\* Alice, born on the Saturday, was refused the 29 February.
C6_Witness ==
    /\ pc = "loop"
    /\ user_input = JoinSpace(<<ADD_BIRTHDAY, Alice, DateLeap>>)
    /\ out = Said("Birthday already exists for {}.", <<Alice>>)
    /\ find_record(book, Alice) # None
    /\ find_record(book, Alice)[1].birthday = <<Birthday(DateSaturday).val>>

\* The birthday of the queried record in year y, when that year has the day.
HasDay(y) ==
    record.birthday[1].date.day <= days_in_month(y, record.birthday[1].date.month)

DayIn(y) ==
    toordinal(Date(y, record.birthday[1].date.month, record.birthday[1].date.day))

\* A day number moved off Saturday and Sunday to the Monday after.
ToMonday(ordinal) ==
    ordinal + (IF (ordinal + 6) % 7 = 5 THEN 2 ELSE IF (ordinal + 6) % 7 = 6 THEN 1 ELSE 0)

Entries == IF upcoming[1].exc = "" THEN upcoming[1].val ELSE <<>>

\* The years, of this one and the next, whose birthday is not before today.
ComingYears ==
    { y \in {today.year, today.year + 1} : HasDay(y) /\ DayIn(y) >= toordinal(today) }

NextOccurrence == DayIn(CHOOSE y \in ComingYears : \A z \in ComingYears : y <= z)

\* C7: the query returns at most one entry, none without a birthday, and an
\* entry exactly when the next occurrence of the birthday on or after today,
\* moved off Saturday and Sunday, is 0 to 7 days after today; the entry names
\* that moved day, which is no Saturday or Sunday.
C7_UpcomingWindow ==
    upcoming # None =>
        /\ Len(Entries) <= 1
        /\ record.birthday = None => upcoming[1] = Return(<<>>)
        /\ record.birthday # None =>
            /\ Entries # <<>> <=>
                /\ ComingYears # {}
                /\ ToMonday(NextOccurrence) - toordinal(today) \in 0..7
            /\ Entries # <<>> =>
                LET congratulation == strptime(Entries[1].congratulation_date) IN
                /\ Entries[1].name = record.name.value
                /\ congratulation.exc = ""
                /\ toordinal(congratulation.val) = ToMonday(NextOccurrence)
                /\ weekday(congratulation.val) < 5

\* On Monday 1 January the birthday of Saturday 6 January is announced for
\* Monday 8 January, seven days ahead.
C7_Witness ==
    /\ today = Date(FirstYear + 1, 1, 1)
    /\ weekday(today) = 0
    /\ record.birthday # None
    /\ record.birthday[1].date = Date(BirthYear, 1, 6)
    /\ upcoming = <<Return(<<[name |-> Alice,
                              congratulation_date |->
                                  strftime(Date(FirstYear + 1, 1, 8))]>>)>>

\* C8: whenever an occurrence of the birthday, moved off Saturday and Sunday to
\* the Monday after, is 0 to 7 days after today, the query reports the contact
\* with that day, also when the occurrence itself was the weekend before today.
C8_WeekendBirthdayReported ==
    (upcoming # None /\ record.birthday # None) =>
        \A y \in {today.year - 1, today.year, today.year + 1} :
            (HasDay(y) /\ ToMonday(DayIn(y)) - toordinal(today) \in 0..7)
            => /\ Len(Entries) = 1
               /\ toordinal(strptime(Entries[1].congratulation_date).val)
                      = ToMonday(DayIn(y))

\* C9: change with a name and a phone replaces the first phone of an existing
\* contact that has phones by the valid new phone and touches nothing else;
\* in every other case it answers with a message and the book is unchanged.
C9_ChangeReplacesFirstPhone ==
    [][(Iteration /\ Tokens[user_input'] # <<>> /\ Command = CHANGE /\ Len(Args) = 2) =>
        LET name == Args[1]
            i == KeyIndex(book, name)
        IN  IF i # 0 /\ book[i].value.phones # <<>> /\ NumRetained(Args[2]) = 10
            THEN /\ pc' = "loop"
                 /\ out' = Said("Phone number updated for {}.", <<name>>)
                 /\ Len(book') = Len(book)
                 /\ \A j \in 1..Len(book) : j # i => book'[j] = book[j]
                 /\ book'[i].key = book[i].key
                 /\ book'[i].value.name = book[i].value.name
                 /\ book'[i].value.birthday = book[i].value.birthday
                 /\ Len(book'[i].value.phones) = Len(book[i].value.phones)
                 /\ book'[i].value.phones[1].value = SelectSeq(Args[2], Retained)
                 /\ \A k \in 2..Len(book[i].value.phones) :
                        book'[i].value.phones[k] = book[i].value.phones[k]
            ELSE /\ pc' = "loop"
                 /\ book' = book
                 /\ out' # None
                 /\ out' # Said("Phone number updated for {}.", <<name>>)
      ]_vars

\* Alice's first phone was replaced and her second, once equal to it, kept.
C9_Witness ==
    /\ pc = "loop"
    /\ user_input = JoinSpace(<<CHANGE, Alice, PhonePlus>>)
    /\ out = Said("Phone number updated for {}.", <<Alice>>)
    /\ find_record(book, Alice) # None
    /\ PhoneValues(find_record(book, Alice)[1]) = <<PhonePlus, PhoneDigits>>
    /\ find_record(book, Bob) # None

\* C10: an add whose phone fails validation leaves the book unchanged, and so
\* no contact of the book is without a phone.
C10_FailedAddChangesNothing ==
    [][Iteration =>
        /\ (Tokens[user_input'] # <<>> /\ Command = ADD /\ Len(Args) >= 2
                /\ NumRetained(Args[2]) # 10)
            => book' = book
        /\ \A i \in 1..Len(book') : book'[i].value.phones # <<>>
      ]_vars

====
